---- MODULE Spec2Model ----
(***************************************************************************)
(* The webverse score-submission and leaderboard service (src/server.js).  *)
(* The file holds two variants of the server: variant 1 (lines 1-161)      *)
(* computes the score inline in the submit handler, variant 2 (lines       *)
(* 163-315) validates in the schema and computes the score in a pre-save   *)
(* hook.  One deployment runs one variant; `variant` says which.           *)
(*                                                                         *)
(* Numbers: a JSON number is modelled as an integer count of 1/Unit        *)
(* seconds, so that fractional elapsed times exist and the floor of        *)
(* Math.floor((600 - timeTaken) * 1.5) is a real operation.                *)
(* Strings: a sequence of one-character strings.                           *)
(* Left out: createdAt/updatedAt (no claim reads a clock); a record's _id  *)
(* is its position in the collection.                                      *)
(***************************************************************************)
EXTENDS Integers, Sequences, FiniteSets

\* ---------------------------------------------------------------- bounds
Unit == 4            \* resolution of a number: 1/Unit second
MaxRecords == 2      \* Submit requests accepted past the missing-field check
SeedCount == 50      \* records already stored when the seeded service starts

\* ------------------------------------------------------ program constants
TimeBudget == 600    \* the 600 of (600 - timeTaken) and of max: 600
LeaderboardLimit == 50
MaxFieldLength == 50

Clients == {"c1", "c2"}

\* ------------------------------------------------------------ JSON values
Undefined == [tag |-> "undefined", n |-> 0, s |-> <<>>]
NaN == [tag |-> "NaN", n |-> 0, s |-> <<>>]
Num(n) == [tag |-> "number", n |-> n, s |-> <<>>]
Str(s) == [tag |-> "string", n |-> 0, s |-> s]

Sec(k) == k * Unit

Blank == <<" ", " ">>
LongText == [i \in 1..(MaxFieldLength + 1) |-> "x"]

\* A string that is not the text of a number ("abc"): Number("abc") is NaN.
NonNumeric == Str(<<"a", "b", "c">>)

\* JavaScript's !v for the values of the model.
Falsy(v) ==
  \/ v.tag = "undefined"
  \/ v.tag = "NaN"
  \/ v.tag = "string" /\ v.s = <<>>
  \/ v.tag = "number" /\ v.n = 0

\* ---------------------------------------------------------- request bodies
Body(name, department, email, timeTaken, score) ==
  [name |-> name, department |-> department, email |-> email,
   timeTaken |-> timeTaken, score |-> score]

NoBody == Body(Undefined, Undefined, Undefined, Undefined, Undefined)

NameInputs == {Undefined, Str(<<>>), Str(Blank), Str(<<"a">>), Str(LongText)}
DepartmentInputs == {Undefined, Str(Blank), Str(<<"b">>)}
TimeInputs ==
  {Undefined, NonNumeric, Num(-Unit), Num(0), Num(1), Num(Sec(100)),
   Num(Sec(TimeBudget)), Num(Sec(TimeBudget) + 1)}

\* The bodies a client sends: one field at a time varied around a valid
\* submission, and one body that also carries an email and a score.
Bodies ==
  {Body(n, Str(<<"b">>), Undefined, Num(Sec(100)), Undefined) : n \in NameInputs}
  \cup {Body(Str(<<"a">>), d, Undefined, Num(Sec(100)), Undefined) : d \in DepartmentInputs}
  \cup {Body(Str(<<"a">>), Str(<<"b">>), Undefined, t, Undefined) : t \in TimeInputs}
  \cup {Body(Str(<<"a">>), Str(<<"b">>), Str(<<"e">>), Num(2), Num(999))}

\* ------------------------------------------------------------ Score Engine
\* Mutant of FloorScore: the floor taken before the multiplication.
FloorScoreEarly(n) == (((Sec(TimeBudget) - n) \div Unit) * 3) \div 2

\* Math.floor((600 - timeTaken) * 1.5) on a number of n/Unit seconds.
\* \div rounds towards minus infinity, as Math.floor does.
FloorScore(n) == ((Sec(TimeBudget) - n) * 3) \div (2 * Unit)

Max(a, b) == IF a >= b THEN a ELSE b

\* Variant 1, line 94: Math.max(0, Math.floor((600 - timeTaken) * 1.5)).
\* The operand is coerced with ToNumber: a non-numeric string gives NaN.
InlineScore(timeTaken) ==
  IF timeTaken.tag = "number"
  THEN Num(Max(0, FloorScore(timeTaken.n)))
  ELSE NaN

\* Variant 2, line 234: this.score = Math.floor((600 - this.timeTaken) * 1.5).
PreSaveScore(n) == FloorScore(n)

\* ------------------------------------------------- Mongoose schema (model)
\* The trim setter of a String path: strip leading and trailing whitespace.
RECURSIVE TrimLeft(_)
TrimLeft(s) == IF s # <<>> /\ Head(s) = " " THEN TrimLeft(Tail(s)) ELSE s

RECURSIVE TrimRight(_)
TrimRight(s) ==
  IF s # <<>> /\ s[Len(s)] = " " THEN TrimRight(SubSeq(s, 1, Len(s) - 1)) ELSE s

Trim(s) == TrimRight(TrimLeft(s))

CastError == [tag |-> "castError", n |-> 0, s |-> <<>>]

\* A String path: variant 2 declares trim: true, variant 1 does not.
CastString(v, trim) ==
  IF v.tag = "string" THEN Str(IF trim THEN Trim(v.s) ELSE v.s) ELSE v

\* A Number path: a value that is not a number does not cast.
CastNumber(v) ==
  IF v.tag \in {"number", "undefined"} THEN v ELSE CastError

\* Mutant of NewPlayer: a score in the body is passed on to the document.
NewPlayerTrusting(v, body) ==
  [name |-> CastString(body.name, v = 2),
   department |-> CastString(body.department, v = 2),
   email |-> IF v = 1 THEN CastString(body.email, FALSE) ELSE Undefined,
   timeTaken |-> CastNumber(body.timeTaken),
   score |-> IF body.score.tag = "number" THEN body.score
             ELSE IF v = 1 THEN CastNumber(InlineScore(body.timeTaken))
             ELSE Undefined]

\* new Player({...}): each path is cast and run through its setters.
\* Variant 1 (line 95) passes name, department, email, timeTaken and the
\* score it computed; variant 2 (line 253) passes name, department and
\* timeTaken only, and its schema has no email path.
NewPlayer(v, body) ==
  IF v = 1
  THEN [name |-> CastString(body.name, FALSE),
        department |-> CastString(body.department, FALSE),
        email |-> CastString(body.email, FALSE),
        timeTaken |-> CastNumber(body.timeTaken),
        score |-> CastNumber(InlineScore(body.timeTaken))]
  ELSE [name |-> CastString(body.name, TRUE),
        department |-> CastString(body.department, TRUE),
        email |-> Undefined,
        timeTaken |-> CastNumber(body.timeTaken),
        score |-> Undefined]

\* required: true on a String path rejects a missing and an empty string.
RequiredString(v) == v.tag = "string" /\ v.s # <<>>

\* required: true on a Number path.
RequiredNumber(v) == v.tag = "number"

\* The validation that document.save() runs before the pre-save hooks.
ValidatePlayer(v, doc) ==
  IF v = 1
  THEN /\ RequiredString(doc.name)
       /\ RequiredString(doc.department)
       /\ doc.email.tag # "castError"
       /\ RequiredNumber(doc.timeTaken)
       /\ RequiredNumber(doc.score)
  ELSE /\ RequiredString(doc.name)
       /\ Len(doc.name.s) <= MaxFieldLength
       /\ RequiredString(doc.department)
       /\ Len(doc.department.s) <= MaxFieldLength
       /\ RequiredNumber(doc.timeTaken)
       /\ doc.timeTaken.n >= 0
       /\ doc.timeTaken.n <= Sec(TimeBudget)

\* playerSchema.pre('save'): variant 2 overwrites score; variant 1 has no hook.
PreSave(v, doc) ==
  IF v = 2 THEN [doc EXCEPT !.score = Num(PreSaveScore(doc.timeTaken.n))] ELSE doc

\* The record the collection holds for a saved document; storage assigns id.
StoredRecord(id, doc) ==
  [id |-> id, name |-> doc.name.s, department |-> doc.department.s,
   email |-> doc.email, timeTaken |-> doc.timeTaken.n, score |-> doc.score.n]

NoRecord ==
  [id |-> 0, name |-> <<>>, department |-> <<>>, email |-> Undefined,
   timeTaken |-> 0, score |-> 0]

\* ------------------------------------------------------------- leaderboard
\* Mutant of Before: the tie-break descending, sort({ score: -1, timeTaken: -1 }).
BeforeSlowerFirst(a, b) ==
  \/ a.score > b.score
  \/ a.score = b.score /\ a.timeTaken > b.timeTaken

\* sort({ score: -1, timeTaken: 1 }): a comes strictly before b.
Before(a, b) ==
  \/ a.score > b.score
  \/ a.score = b.score /\ a.timeTaken < b.timeTaken

\* a and b tie on the whole sort key.
Tied(a, b) == a.score = b.score /\ a.timeTaken = b.timeTaken

\* The records of s sorted by the key; those that tie on it stand in the
\* order s holds them.  A record's place is one more than the number of
\* records that come before it.
SortStable(s) ==
  LET n == Len(s)
      places == {<<1 + Cardinality({j \in 1..n : \/ Before(s[j], s[i])
                                                 \/ Tied(s[j], s[i]) /\ j < i}), i>> :
                   i \in 1..n}
  IN [p \in 1..n |-> s[(CHOOSE pl \in places : pl[1] = p)[2]]]

\* Every order the query may return the records of s in: the sort key has no
\* unique field, and the database returns records that tie on the whole key
\* in any order.  These are the sorted order with the tied records permuted.
SortedOrders(s) ==
  LET base == SortStable(s)
      n == Len(s)
      T == {p \in 1..n : \/ p > 1 /\ Tied(base[p], base[p - 1])
                         \/ p < n /\ Tied(base[p], base[p + 1])}
      perms == {f \in [T -> T] : /\ \A p, q \in T : f[p] = f[q] => p = q
                                 /\ \A p \in T : Tied(base[p], base[f[p]])}
  IN {[p \in 1..n |-> IF p \in T THEN base[f[p]] ELSE base[p]] : f \in perms}

Min(a, b) == IF a <= b THEN a ELSE b

\* .limit(50)
\* Mutant of Limit: .limit(req.query.limit || 50).
LimitFromQuery(order, query) ==
  SubSeq(order, 1, Min(Len(order), IF query.tag = "number" THEN query.n ELSE LeaderboardLimit))

\* .limit(50): the handler never reads the request's query.
Limit(order, query) == SubSeq(order, 1, Min(Len(order), LeaderboardLimit))

\* formatTime (variant 2, lines 303-307): whole minutes and the remaining
\* seconds, the two numbers the mm:ss text is printed from.
formatTime(seconds) ==
  [mins |-> seconds \div Sec(60), secs |-> seconds % Sec(60)]

NoTime == [mins |-> 0, secs |-> 0]

\* players.map((player, index) => ({...player, rank: index + 1, ...}))
Rank(index) == index + 1

RankedPlayers(v, players) ==
  [i \in 1..Len(players) |->
     [player |-> players[i],
      rank |-> Rank(i - 1),
      timeFormatted |-> IF v = 2 THEN formatTime(players[i].timeTaken) ELSE NoTime]]

\* --------------------------------------------------------------- responses
\* endpoint and status; whether the JSON has a success field and its value;
\* whether it has a data and an error field; the player in data (201); the
\* body of the request answered (POST /api/players) and the score the server
\* computed while handling it, Undefined if it computed none.
Response(endpoint, status, hasSuccess, success, hasData, hasError, player, req, computed) ==
  [endpoint |-> endpoint, status |-> status, hasSuccess |-> hasSuccess,
   success |-> success, hasData |-> hasData, hasError |-> hasError,
   player |-> player, req |-> req, computed |-> computed]

NoResponse ==
  Response("none", 0, FALSE, FALSE, FALSE, FALSE, NoRecord, NoBody, Undefined)

Idle == [pc |-> "idle", body |-> NoBody, query |-> Undefined]

\* No leaderboard has been returned since the last record was stored.
NoBoard == <<[player |-> NoRecord, rank |-> 0, timeFormatted |-> NoTime]>>

\* ------------------------------------------------------------------- CORS
AllowedOrigins(v) ==
  IF v = 1
  THEN {"http://localhost:3000", "https://webverse-flame.vercel.app",
        "https://webverse-production.up.railway.app", "http://localhost:3001",
        "http://localhost:3002", "http://localhost:3003", "http://localhost:5173"}
  ELSE {"http://localhost:3000", "https://webverse-flame.vercel.app",
        "https://webverse-game.vercel.app"}

\* corsOptions.origin: a request without an Origin header ("") passes.
OriginAllowed(v, origin) == origin = "" \/ origin \in AllowedOrigins(v)

OriginInputs == {"", "http://localhost:3001", "https://evil.example"}

QueryInputs == {Undefined, Num(1)}

\* ------------------------------------------------------------------ state
VARIABLES
  variant,     \* which of the two servers of src/server.js is deployed
  storage,     \* the players collection, in insertion order
  seeded,      \* how many records the collection held at start
  pending,     \* per client: the request whose await has not resolved
  lastResp,    \* the response the last step sent, NoResponse if it sent none
  lastBoard,   \* data of the last 200 of GET /api/leaderboard
  created      \* number of 201 responses sent

vars == <<variant, storage, seeded, pending, lastResp, lastBoard, created>>

\* The record the submit pipeline stores for a body that passes validation.
SavedRecord(v, id, body) == StoredRecord(id, PreSave(v, NewPlayer(v, body)))

\* SeedCount submissions of 1, 2, ... seconds, stored by the deployed variant.
SeedRecords(v) ==
  [i \in 1..SeedCount |->
     SavedRecord(v, i, Body(Str(<<"a">>), Str(<<"b">>), Undefined, Num(Sec(i)), Undefined))]

InitCommon ==
  /\ variant \in {1, 2}
  /\ pending = [c \in Clients |-> Idle]
  /\ lastResp = NoResponse
  /\ lastBoard = NoBoard
  /\ created = 0

\* A fresh deployment: the collection is empty.
Init ==
  /\ InitCommon
  /\ storage = <<>>
  /\ seeded = 0

\* A deployment whose collection already holds SeedCount records.
InitSeeded ==
  /\ InitCommon
  /\ storage = SeedRecords(variant)
  /\ seeded = SeedCount

Saving == {c \in Clients : pending[c].pc = "saving"}

\* Mutant of MissingFields: timeTaken is not checked.
MissingFieldsNoTime(body) == Falsy(body.name) \/ Falsy(body.department)

\* if (!name || !department || timeTaken === undefined)
MissingFields(body) ==
  Falsy(body.name) \/ Falsy(body.department) \/ body.timeTaken.tag = "undefined"

\* POST /submit (variant 1 only): res.send({ message }).
TestSubmit ==
  /\ variant = 1
  /\ lastResp' = Response("submit", 200, FALSE, FALSE, FALSE, FALSE, NoRecord, NoBody, Undefined)
  /\ UNCHANGED <<variant, storage, seeded, pending, lastBoard, created>>

\* POST /api/players up to await player.save().
SubmitPlayer(c, body) ==
  /\ pending[c].pc = "idle"
  /\ IF MissingFields(body)
     THEN /\ lastResp' = Response("players", 400, TRUE, FALSE, FALSE, TRUE, NoRecord, body, Undefined)
          /\ UNCHANGED pending
     ELSE /\ created + Cardinality(Saving) < MaxRecords
          /\ pending' = [pending EXCEPT ![c] = [pc |-> "saving", body |-> body, query |-> Undefined]]
          /\ lastResp' = NoResponse
  /\ UNCHANGED <<variant, storage, seeded, lastBoard, created>>

\* Mutant of PlayerSaved: the insert is issued before the document is
\* validated, so a submission answered 500 may have been stored.
PlayerSavedUnvalidated(c, readyState) ==
  /\ pending[c].pc = "saving"
  /\ pending' = [pending EXCEPT ![c] = Idle]
  /\ LET body == pending[c].body
         doc == NewPlayer(variant, body)
         valid == ValidatePlayer(variant, doc)
         player == SavedRecord(variant, Len(storage) + 1, body)
         computed == IF variant = 1 THEN InlineScore(body.timeTaken)
                     ELSE PreSave(variant, doc).score
     IN \/ /\ readyState = 1
           /\ storage' = Append(storage, player)
           /\ lastResp' =
                IF valid
                THEN Response("players", 201, TRUE, TRUE, TRUE, FALSE, player, body, computed)
                ELSE Response("players", 500, TRUE, FALSE, FALSE, TRUE, NoRecord, body, computed)
           /\ lastBoard' = NoBoard
           /\ created' = IF valid THEN created + 1 ELSE created
        \/ /\ readyState = 0
           /\ lastResp' = Response("players", 500, TRUE, FALSE, FALSE, TRUE, NoRecord, body, computed)
           /\ UNCHANGED <<storage, lastBoard, created>>
  /\ UNCHANGED <<variant, seeded>>

\* player.save() settles: validation, the pre-save hook, the insert; then the
\* 201, or the catch block's 500.  The save rejects when validation fails,
\* and when the connection is down (readyState 0) at the insert; the insert
\* is atomic: a save that rejects has stored nothing.
PlayerSaved(c, readyState) ==
  /\ pending[c].pc = "saving"
  /\ pending' = [pending EXCEPT ![c] = Idle]
  /\ LET body == pending[c].body
         doc == NewPlayer(variant, body)
         valid == ValidatePlayer(variant, doc)
         player == SavedRecord(variant, Len(storage) + 1, body)
         computed == IF variant = 1 THEN InlineScore(body.timeTaken)
                     ELSE IF valid THEN PreSave(variant, doc).score
                     ELSE Undefined
     IN \/ /\ valid
           /\ readyState = 1
           /\ storage' = Append(storage, player)
           /\ lastResp' = Response("players", 201, TRUE, TRUE, TRUE, FALSE, player, body, computed)
           /\ lastBoard' = NoBoard
           /\ created' = created + 1
        \/ /\ ~valid \/ readyState = 0
           /\ lastResp' = Response("players", 500, TRUE, FALSE, FALSE, TRUE, NoRecord, body, computed)
           /\ UNCHANGED <<storage, lastBoard, created>>
  /\ UNCHANGED <<variant, seeded>>

\* GET /api/leaderboard up to await Player.find()...lean().
GetLeaderboard(c, query) ==
  /\ pending[c].pc = "idle"
  /\ pending' = [pending EXCEPT ![c] = [pc |-> "finding", body |-> NoBody, query |-> query]]
  /\ lastResp' = NoResponse
  /\ UNCHANGED <<variant, storage, seeded, lastBoard, created>>

\* The query settles: the ranked 200, or the catch block's 500 when the
\* connection is down.
LeaderboardFound(c, readyState) ==
  /\ pending[c].pc = "finding"
  /\ pending' = [pending EXCEPT ![c] = Idle]
  /\ \/ /\ readyState = 1
        /\ \E order \in SortedOrders(storage) :
             lastBoard' = RankedPlayers(variant, Limit(order, pending[c].query))
        /\ lastResp' = Response("leaderboard", 200, TRUE, TRUE, TRUE, FALSE, NoRecord, NoBody, Undefined)
     \/ /\ readyState = 0
        /\ lastResp' = Response("leaderboard", 500, TRUE, FALSE, FALSE, TRUE, NoRecord, NoBody, Undefined)
        /\ UNCHANGED lastBoard
  /\ UNCHANGED <<variant, storage, seeded, created>>

\* GET /health (variant 1 only): { status, database }, always 200.
HealthCheck(readyState) ==
  /\ variant = 1
  /\ lastResp' = Response(IF readyState = 1 THEN "health:Connected" ELSE "health:Disconnected",
                          200, FALSE, FALSE, FALSE, FALSE, NoRecord, NoBody, Undefined)
  /\ UNCHANGED <<variant, storage, seeded, pending, lastBoard, created>>

\* Mutant of OriginRefused: the global error handler sends a bare text.
OriginRefusedBare(origin) ==
  /\ ~OriginAllowed(variant, origin)
  /\ lastResp' = Response("errorHandler", 500, FALSE, FALSE, FALSE, FALSE, NoRecord, NoBody, Undefined)
  /\ UNCHANGED <<variant, storage, seeded, pending, lastBoard, created>>

\* The cors middleware refuses the request's origin and passes the error on:
\* variant 1 answers in its global error handler; variant 2 registers none,
\* and the framework's own handler answers without the envelope.
OriginRefused(origin) ==
  /\ ~OriginAllowed(variant, origin)
  /\ lastResp' = IF variant = 1
                 THEN Response("errorHandler", 500, TRUE, FALSE, FALSE, TRUE, NoRecord, NoBody, Undefined)
                 ELSE Response("framework", 500, FALSE, FALSE, FALSE, FALSE, NoRecord, NoBody, Undefined)
  /\ UNCHANGED <<variant, storage, seeded, pending, lastBoard, created>>

\* mongoose.connection.readyState as a request may find it: 1 is connected.
ReadyStates == {0, 1}

\* The requests that clients `clients` may send with bodies `bodies`, and the
\* awaits that may settle.
Requests(clients, bodies) ==
  \/ TestSubmit
  \/ \E c \in clients, body \in bodies : SubmitPlayer(c, body)
  \/ \E c \in clients, readyState \in ReadyStates : PlayerSaved(c, readyState)
  \/ \E c \in clients, query \in QueryInputs : GetLeaderboard(c, query)
  \/ \E c \in clients, readyState \in ReadyStates : LeaderboardFound(c, readyState)
  \/ \E readyState \in ReadyStates : HealthCheck(readyState)
  \/ \E origin \in OriginInputs : OriginRefused(origin)

Next == Requests(Clients, Bodies)

Spec == Init /\ [][Next]_vars

\* The seeded service: one client, and submissions that land above the
\* stored records with the score of the first of them (just under 1 s), level
\* with the first (1 s), level with the last (SeedCount s), below all of them
\* (600 s), or are refused for a missing name.
SeededTimes ==
  {Num(Sec(1) - 1), Num(Sec(1)), Num(Sec(SeedCount)), Num(Sec(TimeBudget))}

SeededBodies ==
  {Body(Str(<<"a">>), Str(<<"b">>), Undefined, t, Undefined) : t \in SeededTimes}
  \cup {Body(Undefined, Str(<<"b">>), Undefined, Num(0), Undefined)}

NextSeeded == Requests({"c1"}, SeededBodies)

SpecSeeded == InitSeeded /\ [][NextSeeded]_vars

\* ================================================================== claims
Submitted == lastResp.endpoint = "players"

\* The body lacks name, department or timeTaken.
Lacks(req) ==
  \/ req.name.tag = "undefined"
  \/ req.department.tag = "undefined"
  \/ req.timeTaken.tag = "undefined"

\* timeTaken is a number within [0, 600] seconds.
InBudget(t) == t.tag = "number" /\ t.n >= 0 /\ t.n <= Sec(TimeBudget)

\* k is the floor of (600 - n/Unit) * 1.5:  k <= (600 - n/Unit) * 3/2 < k + 1.
IsFloorOf(k, n) ==
  /\ 2 * Unit * k <= 3 * (Sec(TimeBudget) - n)
  /\ 3 * (Sec(TimeBudget) - n) < 2 * Unit * (k + 1)

\* C1: a Submit with timeTaken in [0, 600] that is accepted stores and returns
\* the score floor((600 - timeTaken) * 1.5), which is >= 0; timeTaken = 0 is
\* not taken for a missing field and scores 900.
C1_ScoreWithinBudget ==
  (Submitted /\ InBudget(lastResp.req.timeTaken)) =>
     /\ lastResp.status = 201 =>
          /\ IsFloorOf(lastResp.player.score, lastResp.req.timeTaken.n)
          /\ lastResp.player.score >= 0
          /\ storage[Len(storage)] = lastResp.player
     /\ (/\ lastResp.req.timeTaken.n = 0
         /\ ~Falsy(lastResp.req.name)
         /\ ~Falsy(lastResp.req.department)) =>
          /\ lastResp.status # 400
          /\ lastResp.status = 201 => lastResp.player.score = 900

\* C1 witness: a fractional timeTaken within the budget was accepted.
C1_Witness ==
  /\ Submitted
  /\ lastResp.status = 201
  /\ InBudget(lastResp.req.timeTaken)
  /\ lastResp.req.timeTaken.n % Unit # 0

\* C2 (as claimed): a Submit with a numeric timeTaken >= 600 that passes the
\* missing-field check has a score computed for it, and that score is 0.
C2_ClampedToZero ==
  (/\ Submitted
   /\ lastResp.status # 400
   /\ lastResp.req.timeTaken.tag = "number"
   /\ lastResp.req.timeTaken.n >= Sec(TimeBudget)) =>
     lastResp.computed = Num(0)

\* C3: a Submit whose body lacks name, department or timeTaken is answered
\* 400 with success false and an error, and the step stores nothing and
\* starts no save.
C3_MissingFieldRejected ==
  [][(lastResp'.endpoint = "players" /\ Lacks(lastResp'.req)) =>
       /\ lastResp'.status = 400
       /\ lastResp'.hasSuccess /\ ~lastResp'.success /\ lastResp'.hasError
       /\ storage' = storage
       /\ pending' = pending]_vars

\* C3 witness: a body without timeTaken was refused while records are stored.
C3_Witness ==
  /\ Submitted
  /\ lastResp.status = 400
  /\ lastResp.req.timeTaken.tag = "undefined"
  /\ Len(storage) > 0

\* A field is present and invalid: a name or department that is empty once
\* trimmed, a timeTaken that is negative or not a number.
PresentInvalid(req) ==
  /\ ~Lacks(req)
  /\ \/ req.name.tag = "string" /\ Trim(req.name.s) = <<>>
     \/ req.department.tag = "string" /\ Trim(req.department.s) = <<>>
     \/ req.timeTaken.tag # "number"
     \/ req.timeTaken.n < 0

\* C4 (as claimed): a Submit with a present but invalid field is answered 400,
\* and no stored record has a negative timeTaken, a score above 900, or a
\* name or department of whitespace only.
C4_InvalidRejected ==
  /\ (Submitted /\ PresentInvalid(lastResp.req)) => lastResp.status = 400
  /\ \A i \in 1..Len(storage) :
       /\ storage[i].timeTaken >= 0
       /\ storage[i].score <= 900
       /\ Trim(storage[i].name) # <<>>
       /\ Trim(storage[i].department) # <<>>

\* C5: the records stored since the start are as many as the 201 responses
\* sent, and a Submit answered 400 or 500 carries no record.
C5_OneRecordPerSuccess ==
  /\ Len(storage) = seeded + created
  /\ (Submitted /\ lastResp.status # 201) =>
       /\ lastResp.status \in {400, 500}
       /\ ~lastResp.hasData
       /\ lastResp.player = NoRecord

\* C5 witness: a record was stored, and a later submission that went as far
\* as the save has just been answered 500.
C5_Witness ==
  /\ Submitted
  /\ lastResp.status = 500
  /\ created = 1
  /\ Len(storage) = seeded + 1

\* C6: a returned leaderboard is ordered by score descending, then timeTaken
\* ascending, and the entry at position i (from 0) has rank i + 1.
C6_OrderedAndRanked ==
  lastBoard # NoBoard =>
    /\ \A i \in 1..Len(lastBoard) : lastBoard[i].rank = i
    /\ \A i, j \in 1..Len(lastBoard) :
         i < j =>
           \/ lastBoard[i].player.score > lastBoard[j].player.score
           \/ /\ lastBoard[i].player.score = lastBoard[j].player.score
              /\ lastBoard[i].player.timeTaken <= lastBoard[j].player.timeTaken

\* C6 witness: the board holds two entries of equal score and different
\* timeTaken, and two that tie on both.
C6_Witness ==
  /\ lastBoard # NoBoard
  /\ \E i, j \in 1..Len(lastBoard) :
       /\ lastBoard[i].player.score = lastBoard[j].player.score
       /\ lastBoard[i].player.timeTaken < lastBoard[j].player.timeTaken
  /\ \E i, j \in 1..Len(lastBoard) :
       /\ i # j
       /\ lastBoard[i].player.score = lastBoard[j].player.score
       /\ lastBoard[i].player.timeTaken = lastBoard[j].player.timeTaken

OnBoard == {lastBoard[i].player : i \in 1..Len(lastBoard)}

\* C7: a returned leaderboard has min(records stored, 50) entries whatever the
\* request's query, each a stored record, and no record left out comes
\* strictly before one returned.
C7_TopFifty ==
  lastBoard # NoBoard =>
    /\ Len(lastBoard) <= 50
    /\ Len(lastBoard) = Min(Len(storage), LeaderboardLimit)
    /\ Cardinality(OnBoard) = Len(lastBoard)
    /\ \A i \in 1..Len(storage) :
         storage[i] \notin OnBoard =>
           \A e \in OnBoard :
             ~(\/ storage[i].score > e.score
               \/ storage[i].score = e.score /\ storage[i].timeTaken < e.timeTaken)
    /\ OnBoard \subseteq {storage[i] : i \in 1..Len(storage)}

\* C7 witness: more than 50 records are stored, a board was returned, and a
\* record submitted after the start made it onto the board.
C7_Witness ==
  /\ lastBoard # NoBoard
  /\ Len(storage) > LeaderboardLimit
  /\ Len(lastBoard) = LeaderboardLimit
  /\ \E e \in OnBoard : e.id > seeded

Enveloped(r) ==
  /\ r.hasSuccess
  /\ r.success => r.hasData
  /\ ~r.success => r.hasError

\* C8 (as claimed): every response of every endpoint has the envelope.
C8_EveryResponseEnveloped ==
  lastResp.endpoint \notin {"none", "framework"} => Enveloped(lastResp)

\* C8 (amended): every response of POST /api/players, of GET /api/leaderboard
\* and of the global error handler has a boolean success, with data when it
\* is true and an error when it is false.
C8_HandlersEnveloped ==
  lastResp.endpoint \in {"players", "leaderboard", "errorHandler"} =>
    /\ Enveloped(lastResp)
    /\ lastResp.success <=> lastResp.status \in {200, 201}

\* C8 witness: the global error handler has answered.
C8_Witness == lastResp.endpoint = "errorHandler"

\* C9 (as claimed): GetLeaderboard changes no stored record, and two boards
\* returned with no record stored between them are identical.  The second
\* part is stated for collections whose records all have a timeTaken within
\* [0, 600], so that what refutes it is a collection of valid records.
C9_ReadsRepeat ==
  [][/\ lastResp'.endpoint = "leaderboard" => storage' = storage
     /\ (/\ lastBoard # NoBoard
         /\ lastBoard' # NoBoard
         /\ \A i \in 1..Len(storage) : InBudget(Num(storage[i].timeTaken))) =>
          lastBoard' = lastBoard]_vars

\* floor((600 - n/Unit) * 1.5) clamped at 0.
IsScoreOf(k, n) ==
  \/ IsFloorOf(k, n) /\ k >= 0
  \/ k = 0 /\ 3 * (Sec(TimeBudget) - n) < 0

\* C10: every stored record's score is the score function of its own
\* timeTaken, so records of equal timeTaken have equal score, and a score
\* sent in the body reaches neither storage nor the response.
C10_ScoreDerived ==
  /\ \A i \in 1..Len(storage) : IsScoreOf(storage[i].score, storage[i].timeTaken)
  /\ \A i, j \in 1..Len(storage) :
       storage[i].timeTaken = storage[j].timeTaken => storage[i].score = storage[j].score
  /\ (Submitted /\ lastResp.status = 201) =>
       /\ IsScoreOf(lastResp.player.score, lastResp.req.timeTaken.n)
       /\ lastResp.req.score.tag = "number" => lastResp.player.score # lastResp.req.score.n

\* C10 witness: a submission that carried its own score was stored.
C10_Witness ==
  /\ Submitted
  /\ lastResp.status = 201
  /\ lastResp.req.score.tag = "number"
  /\ storage[Len(storage)] = lastResp.player

====
